---------------------------- MODULE Spec2Model ----------------------------
(***************************************************************************)
(* A model of get_mlb_schedule (mlb_schedule_ingest.py): one HTTP GET of   *)
(* the season schedule, a filter on regular-season games deduplicated by   *)
(* gamePk, a conversion of each game's UTC start to the civil time of its  *)
(* venue, and one CSV row per kept game.                                   *)
(*                                                                         *)
(* JSON objects are TLA+ records; a key the object lacks is a field the    *)
(* record lacks, so that game["k"] raising KeyError is "k" \notin DOMAIN.  *)
(* An ISO-8601 text "YYYY-MM-DDTHH:MM:00Z" is the record of its fields and *)
(* its suffix; a text that is no ISO-8601 date has iso = FALSE.            *)
(***************************************************************************)
EXTENDS Integers, Sequences, FiniteSets, TLC

VARIABLES
    pc,               \* the statement get_mlb_schedule is about to run
    status_code,      \* response.status_code, 0 before the response
    schedule_data,    \* response.json(), NoData before it
    file_exists,      \* whether data/mlb_schedule_2025.csv exists
    file_rows,        \* its rows
    csvfile,          \* the file object: "none" before open, "open", "closed"
    written,          \* history: the gamePk of each data row written
    processed_games,  \* the set of gamePk already kept
    game_count,       \* the number of games kept
    di,               \* the index of date_info in schedule_data["dates"]
    gi,               \* the index of game in date_info["games"]
    raised,           \* the exception an except clause caught, "" if none
    console           \* what was printed, in order

vars == <<pc, status_code, schedule_data, file_exists, file_rows,
          csvfile, written, processed_games, game_count, di, gi, raised, console>>

(***************************************************************************)
(* Bounds of the model.                                                    *)
(***************************************************************************)
\* the most entries of schedule_data["dates"]
MaxDates == 2
\* the most game records of a payload, over all its dates
MaxGames == 2

-----------------------------------------------------------------------------
(***************************************************************************)
(* The venue table.                                                        *)
(***************************************************************************)
venue_timezones ==
    [v \in {"Oriole Park at Camden Yards", "Fenway Park", "Yankee Stadium",
            "Tropicana Field", "Progressive Field", "Comerica Park",
            "Truist Park", "loanDepot park", "Citi Field",
            "Citizens Bank Park", "Nationals Park", "Great American Ball Park",
            "PNC Park", "George M. Steinbrenner Field",
            "Bristol Motor Speedway", "Journey Bank Ballpark",
            "Muncy Bank Ballpark at Historic Bowman Field"}
        |-> "America/New_York"]
    @@ [v \in {"Rogers Centre"} |-> "America/Toronto"]
    @@ [v \in {"Rate Field", "Kauffman Stadium", "Target Field",
               "Globe Life Field", "Daikin Park", "Wrigley Field",
               "American Family Field", "Busch Stadium", "Minute Maid Park"}
        |-> "America/Chicago"]
    @@ [v \in {"Angel Stadium", "Oakland-Alameda County Coliseum",
               "Sutter Health Park", "T-Mobile Park", "Dodger Stadium",
               "Petco Park", "Oracle Park"} |-> "America/Los_Angeles"]
    @@ [v \in {"Chase Field"} |-> "America/Phoenix"]
    @@ [v \in {"Coors Field"} |-> "America/Denver"]
    @@ [v \in {"London Stadium"} |-> "Europe/London"]
    @@ [v \in {"Estadio Alfredo Harp Helú"} |-> "America/Mexico_City"]
    @@ [v \in {"Hiram Bithorn Stadium"} |-> "America/Puerto_Rico"]
    @@ [v \in {"Tokyo Dome"} |-> "Asia/Tokyo"]

\* a mutant: the default is the zone of most venues
VenueTimezoneEastern(venue) ==
    IF venue \in DOMAIN venue_timezones THEN venue_timezones[venue]
    ELSE "America/New_York"

\* venue_timezones.get(venue, "UTC")
VenueTimezone(venue) ==
    IF venue \in DOMAIN venue_timezones THEN venue_timezones[venue] ELSE "UTC"

-----------------------------------------------------------------------------
(***************************************************************************)
(* datetime: the proleptic Gregorian ordinal, as datetime.py computes it.  *)
(***************************************************************************)
IsLeap(y) == y % 4 = 0 /\ (y % 100 # 0 \/ y % 400 = 0)

DaysBeforeYear(y) ==
    (y - 1) * 365 + ((y - 1) \div 4) - ((y - 1) \div 100) + ((y - 1) \div 400)

\* _DAYS_BEFORE_MONTH[m] + (m > 2 and leap)
RECURSIVE DaysBeforeMonthIn(_, _)
DaysBeforeMonthIn(leap, m) ==
    IF m = 1 THEN 0
    ELSE DaysBeforeMonthIn(leap, m - 1)
         + (IF m - 1 = 2 THEN (IF leap THEN 29 ELSE 28)
            ELSE IF m - 1 \in {4, 6, 9, 11} THEN 30 ELSE 31)

DaysBeforeMonth(y, m) == DaysBeforeMonthIn(IsLeap(y), m)

\* datetime.toordinal
Ymd2Ord(y, m, d) == DaysBeforeYear(y) + DaysBeforeMonth(y, m) + d

\* datetime.fromordinal: the 400/100/4/1-year cycles of _ord2ymd
Ord2Ymd(ord) ==
    LET n0   == ord - 1
        n400 == n0 \div 146097
        r400 == n0 % 146097
        n100 == r400 \div 36524
        r100 == r400 % 36524
        n4   == r100 \div 1461
        r4   == r100 % 1461
        n1   == r4 \div 365
        n    == r4 % 365
        year == n400 * 400 + 1 + n100 * 100 + n4 * 4 + n1
        leap == n1 = 3 /\ (n4 # 24 \/ n100 = 3)
        m0   == (n + 50) \div 32
        before(mm) == DaysBeforeMonthIn(leap, mm)
        month == IF before(m0) > n THEN m0 - 1 ELSE m0
    IN  IF n1 = 4 \/ n100 = 4
        THEN [year |-> year - 1, month |-> 12, day |-> 31]
        ELSE [year |-> year, month |-> month, day |-> n - before(month) + 1]

\* datetime + timedelta(minutes = delta), the tzinfo kept
AddMinutes(dt, delta) ==
    LET total == (Ymd2Ord(dt.year, dt.month, dt.day) * 1440)
                 + dt.hour * 60 + dt.minute + delta
        ymd   == Ord2Ymd(total \div 1440)
        rem   == total % 1440
    IN  [dt EXCEPT !.year = ymd.year, !.month = ymd.month, !.day = ymd.day,
                   !.hour = rem \div 60, !.minute = rem % 60]

-----------------------------------------------------------------------------
(***************************************************************************)
(* pytz: a zone is its UTC transition times, in order, each with the       *)
(* offset (minutes) and the name in force from it on.  The tables hold the *)
(* transitions of the tz database from November 2024 to March 2026, which  *)
(* decide every instant of 2025; the first entry stands for all before it. *)
(***************************************************************************)
At(y, m, d, h, mi) == [year |-> y, month |-> m, day |-> d, hour |-> h, minute |-> mi]

\* a United States zone: daylight time from 9 March 2025 at hour h UTC to
\* 2 November 2025 at hour h - 1 UTC
UsZone(h, std, stdName, dstName) ==
    << <<At(2024, 11, 3, h - 1, 0), std, stdName>>,
       <<At(2025, 3, 9, h, 0), std + 60, dstName>>,
       <<At(2025, 11, 2, h - 1, 0), std, stdName>>,
       <<At(2026, 3, 8, h, 0), std + 60, dstName>> >>

FixedZone(off, name) == << <<At(2024, 11, 3, 0, 0), off, name>> >>

\* pytz.timezone(name)
Timezone(name) ==
    CASE name = "America/New_York"    -> UsZone(7, -300, "EST", "EDT")
      [] name = "America/Toronto"     -> UsZone(7, -300, "EST", "EDT")
      [] name = "America/Chicago"     -> UsZone(8, -360, "CST", "CDT")
      [] name = "America/Denver"      -> UsZone(9, -420, "MST", "MDT")
      [] name = "America/Los_Angeles" -> UsZone(10, -480, "PST", "PDT")
      [] name = "America/Phoenix"     -> FixedZone(-420, "MST")
      [] name = "America/Mexico_City" -> FixedZone(-360, "CST")
      [] name = "America/Puerto_Rico" -> FixedZone(-240, "AST")
      [] name = "Asia/Tokyo"          -> FixedZone(540, "JST")
      [] name = "Europe/London"       ->
            << <<At(2024, 10, 27, 1, 0), 0, "GMT">>,
               <<At(2025, 3, 30, 1, 0), 60, "BST">>,
               <<At(2025, 10, 26, 1, 0), 0, "GMT">>,
               <<At(2026, 3, 29, 1, 0), 60, "BST">> >>
      [] name = "UTC"                 -> FixedZone(0, "UTC")

\* a <= b for naive datetimes: the comparison of their fields in order
NotAfter(a, b) ==
    LET ka == <<a.year, a.month, a.day, a.hour, a.minute>>
        kb == <<b.year, b.month, b.day, b.hour, b.minute>>
    IN  \/ ka = kb
        \/ \E i \in 1..5 : ka[i] < kb[i] /\ \A j \in 1..(i - 1) : ka[j] = kb[j]

\* a mutant: bisect_left, which takes the instant of a transition to be
\* before it
TransitionIndexLeft(zone, dt) ==
    LET n == Cardinality({i \in 1..Len(zone) : ~NotAfter(dt, zone[i][1])})
    IN  IF n = 0 THEN 1 ELSE n

\* DstTzInfo.fromutc: max(0, bisect_right(transition times, dt) - 1)
TransitionIndex(zone, dt) ==
    LET n == Cardinality({i \in 1..Len(zone) : NotAfter(zone[i][1], dt)})
    IN  IF n = 0 THEN 1 ELSE n

\* game_utc_time_str.replace('Z', '+00:00')
ReplaceZ(text) == IF text.suffix = "Z" THEN [text EXCEPT !.suffix = "+00:00"] ELSE text

\* datetime.fromisoformat(text): the aware datetime of a text ending "+00:00"
FromIsoFormat(text) ==
    [year |-> text.year, month |-> text.month, day |-> text.day,
     hour |-> text.hour, minute |-> text.minute, utcoffset |-> 0, tzname |-> "UTC"]

\* utc_dt.astimezone(home_timezone): to UTC, then the zone's fromutc
AsTimezone(dt, zone) ==
    LET utc  == AddMinutes(dt, 0 - dt.utcoffset)
        info == zone[TransitionIndex(zone, utc)]
    IN  [AddMinutes(utc, info[2]) EXCEPT !.utcoffset = info[2], !.tzname = info[3]]

Pad2(n) == IF n < 10 THEN "0" \o ToString(n) ELSE ToString(n)

\* local_dt.strftime("%Y-%m-%d")
StrfDate(dt) == ToString(dt.year) \o "-" \o Pad2(dt.month) \o "-" \o Pad2(dt.day)

\* %I: the hour of the 12-hour clock
Hour12(h) == IF h % 12 = 0 THEN 12 ELSE h % 12

\* local_dt.strftime("%I:%M %p %Z")
StrfTime(dt) ==
    Pad2(Hour12(dt.hour)) \o ":" \o Pad2(dt.minute) \o " "
    \o (IF dt.hour < 12 THEN "AM" ELSE "PM") \o " " \o dt.tzname

-----------------------------------------------------------------------------
(***************************************************************************)
(* The payloads response.json() may return.                                *)
(***************************************************************************)
NoData == [none |-> TRUE]

Text(y, m, d, h, mi) ==
    [iso |-> TRUE, year |-> y, month |-> m, day |-> d, hour |-> h, minute |-> mi,
     suffix |-> "Z"]

\* a gameDate that is no ISO-8601 text, such as "TBD"
NotADate == [iso |-> FALSE]

Team(name) == [team |-> [name |-> name]]

Game(pk, type, date, away, home, venue) ==
    [gamePk |-> pk, gameType |-> type, gameDate |-> date,
     teams |-> [away |-> Team(away), home |-> Team(home)],
     venue |-> [name |-> venue]]

Drop(obj, key) == [k \in DOMAIN obj \ {key} |-> obj[k]]

\* the venues of the sampled games: one of each zone of the table, and one
\* the table lacks
KnownVenues ==
    {"Fenway Park", "Rogers Centre", "Wrigley Field", "Coors Field",
     "Dodger Stadium", "Chase Field", "London Stadium",
     "Estadio Alfredo Harp Helú", "Hiram Bithorn Stadium", "Tokyo Dome"}

UnknownVenue == "Sahlen Field"

\* the start times of the sampled games: the spec's example, both sides of
\* each transition of 2025, noon and midnight, and the ends of months and years
StartTimes ==
    {Text(2025, 4, 1, 23, 5),
     Text(2025, 3, 9, 6, 59), Text(2025, 3, 9, 7, 0), Text(2025, 3, 9, 9, 59),
     Text(2025, 3, 9, 10, 0), Text(2025, 3, 30, 0, 59), Text(2025, 3, 30, 1, 0),
     Text(2025, 10, 26, 0, 59), Text(2025, 10, 26, 1, 0),
     Text(2025, 11, 2, 5, 59), Text(2025, 11, 2, 6, 0), Text(2025, 11, 2, 8, 59),
     Text(2025, 3, 1, 0, 5), Text(2025, 3, 18, 10, 10), Text(2025, 6, 15, 16, 5),
     Text(2025, 6, 15, 4, 10), Text(2025, 9, 30, 23, 40), Text(2025, 7, 4, 17, 35),
     Text(2025, 1, 1, 2, 0), Text(2025, 12, 31, 20, 0)}

\* well-formed regular-season games: two identifiers, the first of them
\* twice with different content, a known and an unknown venue
RegularGames ==
    {Game(1, "R", Text(2025, 4, 1, 23, 5), "New York Yankees", "Boston Red Sox",
          "Fenway Park"),
     Game(2, "R", Text(2025, 4, 2, 2, 10), "Toronto Blue Jays", "Buffalo Bisons",
          UnknownVenue),
     Game(1, "R", Text(2025, 4, 3, 1, 40), "Atlanta Braves", "Arizona Diamondbacks",
          "Chase Field")}

\* games of another type, or of none
OtherGames ==
    {Game(1, "S", Text(2025, 3, 1, 18, 5), "New York Yankees", "Boston Red Sox",
          "George M. Steinbrenner Field"),
     Drop(Game(2, "R", Text(2025, 4, 1, 23, 5), "Toronto Blue Jays", "Boston Red Sox",
               "Fenway Park"), "gameType")}

\* regular-season games that lack a key, or whose gameDate is no date, and
\* a game of another type that lacks its gamePk
MalformedGames ==
    LET g == Game(2, "R", Text(2025, 4, 1, 23, 5), "Toronto Blue Jays", "Boston Red Sox",
                  "Fenway Park")
    IN  {Drop(g, "gamePk"), Drop([g EXCEPT !.gameType = "S"], "gamePk"),
         Drop(g, "gameDate"), Drop(g, "venue"),
         [g EXCEPT !.teams.away.team = [id |-> 147]],
         [g EXCEPT !.teams = Drop(g.teams, "home")],
         [g EXCEPT !.gameDate = NotADate]}

Games == RegularGames \cup OtherGames \cup MalformedGames

\* the lists of one to n games: the games of a day that has games
GameLists(n) == UNION {[1..k -> Games] : k \in 1..n}

\* the lists of at most k dates that hold at most n games in all; an entry
\* may lack its "games", and is then the last: the run ends at it
RECURSIVE DateLists(_, _)
DateLists(k, n) ==
    IF k = 0 THEN {<<>>}
    ELSE {<<>>, <<[date |-> "2025-04-01"]>>}
         \cup UNION {{<<[date |-> "2025-04-01", games |-> gs]>> \o rest
                        : rest \in DateLists(k - 1, n - Len(gs))}
                     : gs \in GameLists(n)}

\* a date with an empty list of games
EmptyDay == [dates |-> <<[date |-> "2025-04-01", games |-> <<>>]>>]

\* one regular-season game at each sampled venue and start time
ConversionPayloads ==
    {[dates |-> <<[date |-> "2025-04-01",
                   games |-> <<Game(1, "R", t, "Away", "Home", v)>>]>>]
        : t \in StartTimes, v \in KnownVenues \cup {UnknownVenue}}

Payloads ==
    {[totalGames |-> 0], EmptyDay}
    \cup {[dates |-> ds] : ds \in DateLists(MaxDates, MaxGames)}
    \cup ConversionPayloads

\* the status codes of the sampled responses
StatusCodes == {200, 404, 503}

\* the content of data/mlb_schedule_2025.csv an earlier run left
OldRows == << <<"Date", "Local Start Time", "Away Team", "Home Team", "Venue">>,
              <<"2024-03-28", "03:05 PM EDT", "Los Angeles Angels",
                "Baltimore Orioles", "Oriole Park at Camden Yards">> >>

-----------------------------------------------------------------------------
(***************************************************************************)
(* get_mlb_schedule, statement by statement.  The rows written through     *)
(* csv_writer are taken to be in the file as they are written; the with    *)
(* block closes the file on every way out of it.                           *)
(***************************************************************************)
Header == <<"Date", "Local Start Time", "Away Team", "Home Team", "Venue">>

\* a mutant: the first clause catches ConnectionError and Timeout alone
RequestExceptionsNarrow == {"ConnectionError", "Timeout"}

\* the exceptions requests raises, all of them RequestException
RequestExceptions == {"ConnectionError", "Timeout", "HTTPError", "JSONDecodeError"}

\* a mutant: no clause of its own for KeyError
ExceptClauseNoKeyError(exc) ==
    IF exc \in {"ConnectionError", "Timeout", "HTTPError", "JSONDecodeError"}
    THEN "fetch_error"
    ELSE "unexpected_error"

\* the except clause that catches exc, by the message it prints
ExceptClause(exc) ==
    IF exc \in RequestExceptions THEN "fetch_error"
    ELSE IF exc = "KeyError" THEN "parse_error"
    ELSE "unexpected_error"

\* the console after exc(arg) was caught
Caught(out, exc, arg) == Append(out, <<ExceptClause(exc), arg>>)

\* response.raise_for_status() raises HTTPError
BadStatus(code) == 400 <= code /\ code < 600

\* schedule_data.get("dates") is truthy
HasDates(data) == "dates" \in DOMAIN data /\ data.dates # <<>>

\* a mutant: the test of gameType is lost
SkipsIgnoringType(g, processed) == g.gamePk \in processed

\* a mutant: the test of processed_games is lost
SkipsIgnoringSeen(g, processed) ==
    IF "gameType" \notin DOMAIN g THEN TRUE ELSE g.gameType # "R"

\* game.get("gameType") != "R" or game_pk in processed_games
Skips(g, processed) ==
    IF "gameType" \notin DOMAIN g THEN TRUE
    ELSE IF g.gameType # "R" THEN TRUE
    ELSE g.gamePk \in processed

\* the key obj[path[1]][path[2]]... raises KeyError for, "" if none
RECURSIVE MissingKey(_, _)
MissingKey(obj, path) ==
    IF path = <<>> THEN ""
    ELSE IF Head(path) \notin DOMAIN obj THEN Head(path)
    ELSE MissingKey(obj[Head(path)], Tail(path))

\* the subscripts of the extraction, in the order they are evaluated
ExtractedPaths ==
    << <<"gameDate">>, <<"teams", "away", "team", "name">>,
       <<"teams", "home", "team", "name">>, <<"venue", "name">> >>

\* the exception the extraction and the parse of gameDate raise, if any
ExtractError(game) ==
    LET missing == {i \in 1..Len(ExtractedPaths) : MissingKey(game, ExtractedPaths[i]) # ""}
        first   == CHOOSE i \in missing : \A j \in missing : i <= j
    IN  IF missing # {}
        THEN [exc |-> "KeyError", arg |-> MissingKey(game, ExtractedPaths[first])]
        ELSE IF ~game.gameDate.iso
        THEN [exc |-> "ValueError", arg |-> "Invalid isoformat string"]
        ELSE [exc |-> "", arg |-> ""]

\* the venue missing from the table: home_timezone_str == "UTC"
Warns(game) == VenueTimezone(game.venue.name) = "UTC"

\* local_dt of a game
LocalTime(game) ==
    AsTimezone(FromIsoFormat(ReplaceZ(game.gameDate)),
               Timezone(VenueTimezone(game.venue.name)))

\* [date_str, time_str, away_team, home_team, venue]
Row(game) ==
    <<StrfDate(LocalTime(game)), StrfTime(LocalTime(game)),
      game.teams.away.team.name, game.teams.home.team.name, game.venue.name>>

\* a mutant: the file is opened with 'a'
OpenedFileAppended(rows) == rows \o <<Header>>

\* open(output_filename, 'w') and the header row: what the file held is gone
OpenedFile(rows) == <<Header>>

\* a mutant: the row goes in right after the header row
WriteRowFirst(rows, row) == <<rows[1], row>> \o Tail(rows)

\* csv_writer.writerow(row)
WriteRow(rows, row) == Append(rows, row)

\* a mutant: the count is printed even when it is zero
ReportLinesTotal(count) ==
    << <<"total", ToString(count)>>, <<"saved", "data/mlb_schedule_2025.csv">> >>

\* the lines printed after the loop
ReportLines(count) ==
    IF count = 0
    THEN << <<"no_games", "">>, <<"not_available", "">> >>
    ELSE << <<"total", ToString(count)>>, <<"saved", "data/mlb_schedule_2025.csv">> >>

date_info == schedule_data.dates[di]
game == date_info.games[gi]

Init ==
    /\ pc = "get"
    /\ status_code = 0
    /\ schedule_data = NoData
    /\ file_exists \in BOOLEAN
    /\ file_rows = IF file_exists THEN OldRows ELSE <<>>
    /\ csvfile = "none"
    /\ written = <<>>
    /\ processed_games = {}
    /\ game_count = 0
    /\ di = 0
    /\ gi = 0
    /\ raised = ""
    /\ console = <<>>

\* exc(arg) is raised with out printed, and its except clause prints; the
\* with block, if entered, closes the file
Abort(exc, arg, out) ==
    /\ raised' = exc
    /\ console' = Caught(out, exc, arg)
    /\ csvfile' = IF csvfile = "open" THEN "closed" ELSE csvfile
    /\ pc' = "done"

\* requests.get returns a response
GetResponds ==
    /\ pc = "get"
    /\ \E code \in StatusCodes : status_code' = code
    /\ console' = Append(console, <<"fetching", "">>)
    /\ pc' = "raise_for_status"
    /\ UNCHANGED <<schedule_data, file_exists, file_rows, csvfile,
                   written, processed_games, game_count, di, gi, raised>>

\* requests.get raises: no connection, or none within the timeout
GetRaises ==
    /\ pc = "get"
    /\ \E exc \in {"ConnectionError", "Timeout"} :
          Abort(exc, "", Append(console, <<"fetching", "">>))
    /\ UNCHANGED <<status_code, schedule_data, file_exists, file_rows,
                   written, processed_games, game_count, di, gi>>

StatusOk ==
    /\ pc = "raise_for_status"
    /\ ~BadStatus(status_code)
    /\ pc' = "json"
    /\ UNCHANGED <<status_code, schedule_data, file_exists, file_rows,
                   csvfile, written, processed_games, game_count, di, gi, raised,
                   console>>

StatusRaises ==
    /\ pc = "raise_for_status"
    /\ BadStatus(status_code)
    /\ Abort("HTTPError", ToString(status_code), console)
    /\ UNCHANGED <<status_code, schedule_data, file_exists, file_rows,
                   written, processed_games, game_count, di, gi>>

JsonParses ==
    /\ pc = "json"
    /\ \E payload \in Payloads : schedule_data' = payload
    /\ console' = Append(console, <<"fetched", "">>)
    /\ pc' = "open"
    /\ UNCHANGED <<status_code, file_exists, file_rows, csvfile,
                   written, processed_games, game_count, di, gi, raised>>

\* the body is no JSON: requests.exceptions.JSONDecodeError from requests
\* 2.27 on, a ValueError before
JsonRaises ==
    /\ pc = "json"
    /\ \E exc \in {"JSONDecodeError", "ValueError"} : Abort(exc, "", console)
    /\ UNCHANGED <<status_code, schedule_data, file_exists, file_rows,
                   written, processed_games, game_count, di, gi>>

\* open(..., 'w') truncates or creates the file; the header row; the test
\* of schedule_data.get("dates")
OpenWrites ==
    /\ pc = "open"
    /\ processed_games' = {}
    /\ csvfile' = "open"
    /\ file_exists' = TRUE
    /\ file_rows' = OpenedFile(file_rows)
    /\ game_count' = 0
    /\ IF HasDates(schedule_data)
       THEN pc' = "for_date" /\ di' = 1
       ELSE pc' = "report" /\ di' = di
    /\ UNCHANGED <<status_code, schedule_data, written, gi, raised,
                   console>>

\* open raises OSError: no data directory, or no permission
OpenRaises ==
    /\ pc = "open"
    /\ processed_games' = {}
    /\ Abort("OSError", "data/mlb_schedule_2025.csv", console)
    /\ UNCHANGED <<status_code, schedule_data, file_exists, file_rows,
                   written, game_count, di, gi>>

ForDate ==
    /\ pc = "for_date"
    /\ di <= Len(schedule_data.dates)
    /\ "games" \in DOMAIN date_info
    /\ gi' = 1
    /\ pc' = "for_game"
    /\ UNCHANGED <<status_code, schedule_data, file_exists, file_rows,
                   csvfile, written, processed_games, game_count, di, raised,
                   console>>

\* date_info["games"] raises KeyError
ForDateRaises ==
    /\ pc = "for_date"
    /\ di <= Len(schedule_data.dates)
    /\ "games" \notin DOMAIN date_info
    /\ Abort("KeyError", "games", console)
    /\ UNCHANGED <<status_code, schedule_data, file_exists, file_rows,
                   written, processed_games, game_count, di, gi>>

ForDateEnds ==
    /\ pc = "for_date"
    /\ di > Len(schedule_data.dates)
    /\ pc' = "report"
    /\ UNCHANGED <<status_code, schedule_data, file_exists, file_rows,
                   csvfile, written, processed_games, game_count, di, gi, raised,
                   console>>

ForGameEnds ==
    /\ pc = "for_game"
    /\ gi > Len(date_info.games)
    /\ di' = di + 1
    /\ pc' = "for_date"
    /\ UNCHANGED <<status_code, schedule_data, file_exists, file_rows,
                   csvfile, written, processed_games, game_count, gi, raised,
                   console>>

\* game['gamePk'] raises KeyError
GamePkRaises ==
    /\ pc = "for_game"
    /\ gi <= Len(date_info.games)
    /\ "gamePk" \notin DOMAIN game
    /\ Abort("KeyError", "gamePk", console)
    /\ UNCHANGED <<status_code, schedule_data, file_exists, file_rows,
                   written, processed_games, game_count, di, gi>>

\* continue
GameSkipped ==
    /\ pc = "for_game"
    /\ gi <= Len(date_info.games)
    /\ "gamePk" \in DOMAIN game
    /\ Skips(game, processed_games)
    /\ gi' = gi + 1
    /\ UNCHANGED <<pc, status_code, schedule_data, file_exists,
                   file_rows, csvfile, written, processed_games, game_count, di,
                   raised, console>>

\* the game is counted, and then a subscript or fromisoformat raises
GameRaises ==
    /\ pc = "for_game"
    /\ gi <= Len(date_info.games)
    /\ "gamePk" \in DOMAIN game
    /\ ~Skips(game, processed_games)
    /\ ExtractError(game).exc # ""
    /\ processed_games' = processed_games \cup {game.gamePk}
    /\ game_count' = game_count + 1
    /\ Abort(ExtractError(game).exc, ExtractError(game).arg, console)
    /\ UNCHANGED <<status_code, schedule_data, file_exists, file_rows,
                   written, di, gi>>

\* the game is counted and its row written, after a warning if the table
\* lacks its venue
GameWritten ==
    /\ pc = "for_game"
    /\ gi <= Len(date_info.games)
    /\ "gamePk" \in DOMAIN game
    /\ ~Skips(game, processed_games)
    /\ ExtractError(game).exc = ""
    /\ processed_games' = processed_games \cup {game.gamePk}
    /\ game_count' = game_count + 1
    /\ console' = IF Warns(game)
                  THEN Append(console, <<"warning", game.venue.name>>)
                  ELSE console
    /\ file_rows' = WriteRow(file_rows, Row(game))
    /\ written' = Append(written, game.gamePk)
    /\ gi' = gi + 1
    /\ UNCHANGED <<pc, status_code, schedule_data, file_exists, csvfile,
                   di, raised>>

\* the count, or that there is none; the with block ends
Report ==
    /\ pc = "report"
    /\ console' = console \o ReportLines(game_count)
    /\ csvfile' = "closed"
    /\ pc' = "done"
    /\ UNCHANGED <<status_code, schedule_data, file_exists, file_rows,
                   written, processed_games, game_count, di, gi, raised>>

Next ==
    \/ GetResponds \/ GetRaises \/ StatusOk \/ StatusRaises
    \/ JsonParses \/ JsonRaises \/ OpenWrites \/ OpenRaises
    \/ ForDate \/ ForDateRaises \/ ForDateEnds \/ ForGameEnds
    \/ GamePkRaises \/ GameSkipped \/ GameRaises \/ GameWritten
    \/ Report

Spec == Init /\ [][Next]_vars

-----------------------------------------------------------------------------
(***************************************************************************)
(* What the properties speak of.                                           *)
(***************************************************************************)
Min(a, b) == IF a <= b THEN a ELSE b

\* the games of dates[1..k], in the order of the two loops
RECURSIVE GamesOf(_, _)
GamesOf(dates, k) ==
    IF k = 0 THEN <<>>
    ELSE GamesOf(dates, k - 1)
         \o (IF "games" \in DOMAIN dates[k] THEN dates[k].games ELSE <<>>)

\* every game record of the payload
PayloadGames ==
    IF HasDates(schedule_data)
    THEN GamesOf(schedule_data.dates, Len(schedule_data.dates))
    ELSE <<>>

\* the game records the loop is done with: skipped, or written
Consumed ==
    IF csvfile = "none" \/ ~HasDates(schedule_data) THEN <<>>
    ELSE LET dates  == schedule_data.dates
             before == GamesOf(dates, Min(di - 1, Len(dates)))
         IN  IF di <= Len(dates) /\ pc # "for_date" /\ "games" \in DOMAIN dates[di]
             THEN before \o SubSeq(dates[di].games, 1, gi - 1)
             ELSE before

IsRegular(g) == "gameType" \in DOMAIN g /\ g.gameType = "R"

HasPk(g) == "gamePk" \in DOMAIN g

\* the game s[i] is of the regular season and none before it has its gamePk
FirstRegular(s, i) ==
    /\ IsRegular(s[i])
    /\ \A j \in 1..(i - 1) : ~(IsRegular(s[j]) /\ s[j].gamePk = s[i].gamePk)

\* the kept games of s[1..i], in order
RECURSIVE KeptOf(_, _)
KeptOf(s, i) ==
    IF i = 0 THEN <<>>
    ELSE KeptOf(s, i - 1) \o (IF FirstRegular(s, i) THEN <<s[i]>> ELSE <<>>)

Kept == KeptOf(Consumed, Len(Consumed))

RECURSIVE Has(_, _)
Has(obj, path) ==
    path = <<>> \/ (Head(path) \in DOMAIN obj /\ Has(obj[Head(path)], Tail(path)))

\* gameDate, teams/away/team/name, teams/home/team/name or venue/name is missing
MissingRequired(g) ==
    \/ ~Has(g, <<"gameDate">>)
    \/ ~Has(g, <<"teams", "away", "team", "name">>)
    \/ ~Has(g, <<"teams", "home", "team", "name">>)
    \/ ~Has(g, <<"venue", "name">>)

\* the loop is at a regular-season game whose gamePk it has not seen
AtUnseenRegular ==
    /\ pc = "for_game"
    /\ gi <= Len(date_info.games)
    /\ HasPk(game)
    /\ IsRegular(game)
    /\ game.gamePk \notin processed_games

ErrorKinds == {"fetch_error", "parse_error", "unexpected_error"}

Said(kind) == \E i \in 1..Len(console) : console[i][1] = kind

LastSaid == console[Len(console)]

Completed == pc = "done" /\ raised = ""

\* the civil time of 2025 t minutes after 1 January 2025 00:00, for t within
\* a day of the year's ends
CivilOf(t) ==
    LET cum == <<0, 31, 59, 90, 120, 151, 181, 212, 243, 273, 304, 334, 365>>
        doy == (t \div 1440) + 1
        m   == CHOOSE k \in 1..12 : cum[k] < doy /\ doy <= cum[k + 1]
    IN  IF t < 0
        THEN [year |-> 2024, month |-> 12, day |-> 31, mins |-> t + 1440]
        ELSE IF t >= 365 * 1440
        THEN [year |-> 2026, month |-> 1, day |-> 1, mins |-> t - 365 * 1440]
        ELSE [year |-> 2025, month |-> m, day |-> doy - cum[m], mins |-> t % 1440]

\* the minutes from 1 January 2025 00:00 to a civil time of 2025
MinutesOf(month, day, hour, minute) ==
    LET cum == <<0, 31, 59, 90, 120, 151, 181, 212, 243, 273, 304, 334>>
    IN  (cum[month] + day - 1) * 1440 + hour * 60 + minute

\* the rules of 2025.  United States and Canada: daylight time from 02:00
\* standard time on Sunday 9 March to 02:00 daylight time on Sunday
\* 2 November.  United Kingdom: from 01:00 UTC on Sunday 30 March to 01:00
\* UTC on Sunday 26 October.  Arizona, Mexico, Puerto Rico, Japan: none.
RuleOf(zone) ==
    CASE zone \in {"America/New_York", "America/Toronto"}
            -> [std |-> -300, stdName |-> "EST", dstName |-> "EDT", rule |-> "US"]
      [] zone = "America/Chicago"
            -> [std |-> -360, stdName |-> "CST", dstName |-> "CDT", rule |-> "US"]
      [] zone = "America/Denver"
            -> [std |-> -420, stdName |-> "MST", dstName |-> "MDT", rule |-> "US"]
      [] zone = "America/Los_Angeles"
            -> [std |-> -480, stdName |-> "PST", dstName |-> "PDT", rule |-> "US"]
      [] zone = "Europe/London"
            -> [std |-> 0, stdName |-> "GMT", dstName |-> "BST", rule |-> "UK"]
      [] zone = "America/Phoenix"
            -> [std |-> -420, stdName |-> "MST", dstName |-> "MST", rule |-> "none"]
      [] zone = "America/Mexico_City"
            -> [std |-> -360, stdName |-> "CST", dstName |-> "CST", rule |-> "none"]
      [] zone = "America/Puerto_Rico"
            -> [std |-> -240, stdName |-> "AST", dstName |-> "AST", rule |-> "none"]
      [] zone = "Asia/Tokyo"
            -> [std |-> 540, stdName |-> "JST", dstName |-> "JST", rule |-> "none"]
      [] zone = "UTC"
            -> [std |-> 0, stdName |-> "UTC", dstName |-> "UTC", rule |-> "none"]

\* daylight time is in effect in the zone t minutes after 1 January 2025 UTC
DaylightAt(zone, t) ==
    LET r == RuleOf(zone)
    IN  CASE r.rule = "US" -> /\ MinutesOf(3, 9, 2, 0) <= t + r.std
                              /\ t + r.std + 60 < MinutesOf(11, 2, 2, 0)
          [] r.rule = "UK" -> MinutesOf(3, 30, 1, 0) <= t /\ t < MinutesOf(10, 26, 1, 0)
          [] OTHER         -> FALSE

TwoDigits(n) == (IF n < 10 THEN "0" ELSE "") \o ToString(n)

\* the date and the time a row shows for the UTC text in the zone
CivilRow(text, zone) ==
    LET t     == MinutesOf(text.month, text.day, text.hour, text.minute)
        dst   == DaylightAt(zone, t)
        local == CivilOf(t + RuleOf(zone).std + (IF dst THEN 60 ELSE 0))
        h     == local.mins \div 60
        clock == <<12, 1, 2, 3, 4, 5, 6, 7, 8, 9, 10, 11,
                   12, 1, 2, 3, 4, 5, 6, 7, 8, 9, 10, 11>>
    IN  <<ToString(local.year) \o "-" \o TwoDigits(local.month) \o "-"
            \o TwoDigits(local.day),
          TwoDigits(clock[h + 1]) \o ":" \o TwoDigits(local.mins % 60)
            \o (IF h < 12 THEN " AM " ELSE " PM ")
            \o (IF dst THEN RuleOf(zone).dstName ELSE RuleOf(zone).stdName)>>

-----------------------------------------------------------------------------
(***************************************************************************)
(* The properties.                                                         *)
(***************************************************************************)

\* C1: a step writes a row only for the game the loop is at, and only if
\* that game's gameType is "R"; a game of another type, or of none, is left
\* behind with the file as it was, wherever it stands in the payload.
C1_OnlyRegularRows ==
    [][(csvfile = "open" /\ (file_rows' # file_rows \/ written' # written))
        => /\ pc = "for_game"
           /\ gi <= Len(date_info.games)
           /\ IsRegular(game)
           /\ written' = Append(written, game.gamePk)
           /\ Len(file_rows') = Len(file_rows) + 1]_vars

\* a run that completed over a game of no regular-season type followed by a
\* regular-season game, with the one row of the latter
C1_Witness ==
    /\ Completed
    /\ Len(Consumed) = 2
    /\ ~IsRegular(Consumed[1])
    /\ IsRegular(Consumed[2])
    /\ written = <<Consumed[2].gamePk>>

\* the gamePk the records of the payload carry
PayloadPks == {PayloadGames[i].gamePk : i \in {j \in 1..Len(PayloadGames) : HasPk(PayloadGames[j])}}

\* the records of the payload that carry pk
Occurrences(pk) ==
    {i \in 1..Len(PayloadGames) : HasPk(PayloadGames[i]) /\ PayloadGames[i].gamePk = pk}

RegularOccurrences(pk) == {i \in Occurrences(pk) : IsRegular(PayloadGames[i])}

\* the rows written for pk
RowsFor(pk) == {i \in 1..Len(written) : written[i] = pk}

\* C2, as stated: in a run that completes without error, every gamePk that
\* appears more than once in the payload has exactly one row.
C2_Original ==
    Completed =>
        \A pk \in PayloadPks :
            Cardinality(Occurrences(pk)) > 1 => Cardinality(RowsFor(pk)) = 1

\* C2, amended: in a run that completes without error, every gamePk that
\* appears more than once in the payload has exactly one row if one of its
\* records has gameType "R", and no row otherwise.
C2_OneRowPerRegularPk ==
    Completed =>
        \A pk \in PayloadPks :
            Cardinality(Occurrences(pk)) > 1 =>
                Cardinality(RowsFor(pk)) = (IF RegularOccurrences(pk) # {} THEN 1 ELSE 0)

\* a completed run over two regular-season records of one gamePk, on two dates
C2_Witness ==
    /\ Completed
    /\ HasDates(schedule_data)
    /\ Len(schedule_data.dates) = 2
    /\ \E pk \in PayloadPks :
          Cardinality(RegularOccurrences(pk)) = 2 /\ Cardinality(RowsFor(pk)) = 1

\* C3: at a regular-season game with an unseen gamePk that lacks a required
\* key, the step ends the run with the parse-error message, writes no row,
\* and closes the file; and no step follows the end of a run.
C3_MissingKeyAborts ==
    [][/\ pc # "done"
       /\ (AtUnseenRegular /\ MissingRequired(game))
            => /\ pc' = "done"
               /\ raised' = "KeyError"
               /\ Len(console') = Len(console) + 1
               /\ console'[Len(console')][1] = "parse_error"
               /\ SubSeq(console', 1, Len(console)) = console
               /\ file_rows' = file_rows
               /\ written' = written
               /\ csvfile' = "closed"
               /\ <<di', gi'>> = <<di, gi>>]_vars

\* a run ended by the parse error at a game that a well-formed regular-season
\* game of another gamePk follows, which has no row
C3_Witness ==
    /\ pc = "done"
    /\ LastSaid[1] = "parse_error"
    /\ LastSaid[2] \in {"gameDate", "name", "home", "venue"}
    /\ gi < Len(date_info.games)
    /\ IsRegular(date_info.games[gi + 1])
    /\ ~MissingRequired(date_info.games[gi + 1])
    /\ file_rows = <<Header>>

\* C4: at a well-formed regular-season game with an unseen gamePk whose venue
\* the table lacks, the step writes the row with the UTC date and time, prints
\* the warning, and leaves the loop where it is after a game whose venue the
\* table has: at the next game, the game counted, nothing raised.
C4_UnknownVenueUsesUtc ==
    [][(/\ AtUnseenRegular
        /\ ~MissingRequired(game)
        /\ game.gameDate.iso
        /\ game.venue.name \notin DOMAIN venue_timezones)
        => /\ file_rows' = Append(file_rows,
                                  CivilRow(game.gameDate, "UTC")
                                  \o <<game.teams.away.team.name,
                                       game.teams.home.team.name, game.venue.name>>)
           /\ console' = Append(console, <<"warning", game.venue.name>>)
           /\ pc' = "for_game"
           /\ <<di', gi'>> = <<di, gi + 1>>
           /\ processed_games' = processed_games \cup {game.gamePk}
           /\ game_count' = game_count + 1
           /\ raised' = ""
           /\ csvfile' = "open"]_vars

\* a completed run that warned for its first game and wrote the second too
C4_Witness ==
    /\ Completed
    /\ Said("warning")
    /\ Len(Consumed) = 2
    /\ Has(Consumed[1], <<"venue", "name">>)
    /\ Consumed[1].venue.name = UnknownVenue
    /\ file_rows[2][2] = "02:10 AM UTC"
    /\ Len(file_rows) = 3

\* no record of the payload has gameType "R"
NoRegularGame == \A i \in 1..Len(PayloadGames) : ~IsRegular(PayloadGames[i])

HeaderOnly ==
    /\ file_exists
    /\ file_rows = <<Header>>
    /\ Said("no_games")
    /\ ~Said("total")

\* C5, as stated: a run whose payload has no dates, or no game of gameType
\* "R", ends with the file holding the header row alone and the "no games
\* found" message, and without the "processed a total" message.  It is
\* stated of the runs that opened the file, and fails of them already.
C5_Original ==
    (pc = "done" /\ csvfile # "none" /\ NoRegularGame) => HeaderOnly

\* C5, amended: it does so if the file could be opened, every entry of dates
\* has its "games" and every game its gamePk.
C5_HeaderOnly ==
    (/\ pc = "done"
     /\ schedule_data # NoData
     /\ NoRegularGame
     /\ csvfile # "none"
     /\ HasDates(schedule_data) =>
            /\ \A k \in 1..Len(schedule_data.dates) : "games" \in DOMAIN schedule_data.dates[k]
            /\ \A i \in 1..Len(PayloadGames) : HasPk(PayloadGames[i]))
    => HeaderOnly

\* a run ended over a payload of two games, neither of the regular season
C5_Witness ==
    /\ pc = "done"
    /\ NoRegularGame
    /\ Len(PayloadGames) = 2
    /\ HeaderOnly

\* the message of each kind of failure
KindOf(exc) ==
    CASE exc \in {"ConnectionError", "Timeout", "HTTPError", "JSONDecodeError"} -> "fetch_error"
      [] exc = "KeyError" -> "parse_error"
      [] OTHER -> "unexpected_error"

RowsOf(games) == [i \in 1..Len(games) |-> Row(games[i])]

\* C7: once the file is opened it holds the header row and then the row of
\* each kept game the loop is done with, in the order of the two loops; and
\* a step changes the rows only by appending one.
C7_RowsInEncounterOrder ==
    /\ [](csvfile # "none" => file_exists /\ file_rows = <<Header>> \o RowsOf(Kept))
    /\ [][csvfile # "none" =>
            \/ file_rows' = file_rows
            \/ /\ Len(file_rows') = Len(file_rows) + 1
               /\ SubSeq(file_rows', 1, Len(file_rows)) = file_rows]_vars

\* a run ended by a parse error at the game after the one whose row the
\* file holds
C7_Witness ==
    /\ pc = "done"
    /\ raised = "KeyError"
    /\ Len(Consumed) = 1
    /\ file_rows = <<Header, Row(Consumed[1])>>

\* C8: the row of a kept game whose venue the table has shows the civil date
\* and the civil time, with the zone's abbreviation, of the game's UTC
\* instant in the venue's zone under the rule in force at that instant; the
\* game of 2025-04-01T23:05:00Z at Fenway Park shows 2025-04-01, 07:05 PM EDT.
C8_LocalCivilTime ==
    \A i \in 1..Min(Len(Kept), Len(file_rows) - 1) :
        LET g == Kept[i]
        IN  g.venue.name \in DOMAIN venue_timezones =>
               /\ <<file_rows[i + 1][1], file_rows[i + 1][2]>>
                    = CivilRow(g.gameDate, venue_timezones[g.venue.name])
               /\ (g.gameDate = Text(2025, 4, 1, 23, 5) /\ g.venue.name = "Fenway Park")
                    => /\ file_rows[i + 1][1] = "2025-04-01"
                       /\ file_rows[i + 1][2] = "07:05 PM EDT"

\* the row of a game at Dodger Stadium on the day before its UTC date
C8_Witness ==
    /\ Len(file_rows) = 2
    /\ Len(Kept) = 1
    /\ Kept[1].gameDate = Text(2025, 3, 1, 0, 5)
    /\ file_rows[2] = <<"2025-02-28", "04:05 PM PST", "Away", "Home", "Dodger Stadium">>

\* the gamePk of the records of the payload with gameType "R"
RegularPks ==
    {PayloadGames[i].gamePk :
        i \in {j \in 1..Len(PayloadGames) : HasPk(PayloadGames[j]) /\ IsRegular(PayloadGames[j])}}

\* C9: a count is reported only by a run that ends without error; it is the
\* number of data rows and the number of distinct gamePk among the records
\* with gameType "R"; and a run that ends without error reports it exactly
\* when that number is not zero.
C9_CountIsRowsIsDistinctPks ==
    /\ \A i \in 1..Len(console) :
          console[i][1] = "total" =>
             /\ Completed
             /\ console[i][2] = ToString(Len(file_rows) - 1)
             /\ Len(file_rows) - 1 = Cardinality(RegularPks)
             /\ Cardinality(RegularPks) > 0
    /\ Completed => (Said("total") <=> RegularPks # {})
    /\ Completed => (Said("no_games") <=> RegularPks = {})

\* a run that reported two games
C9_Witness ==
    /\ Completed
    /\ LastSaid[1] = "saved"
    /\ console[Len(console) - 1] = <<"total", "2">>

\* the file holds nothing an earlier run left
Overwritten ==
    /\ file_exists
    /\ file_rows # <<>>
    /\ file_rows[1] = Header
    /\ \A i \in 2..Len(file_rows) : file_rows[i] # OldRows[2]

\* the file is as it can have been at the start
AsAtStart == IF file_exists THEN file_rows = OldRows ELSE file_rows = <<>>

\* C10, as stated: a run whose fetch failed leaves the file as it was, and a
\* run whose fetch succeeded has overwritten it, the header row first.
C10_Original ==
    pc = "done" =>
        /\ schedule_data = NoData => AsAtStart
        /\ schedule_data # NoData => Overwritten

\* C10, amended: no step of a run that has no payload, or has not opened the
\* file, changes the file or whether it exists; the step that opens it leaves
\* the header row alone in it; and from then on the header row is first and
\* nothing an earlier run left is in it.  A run whose fetch succeeded and
\* whose open raised leaves the file as it was.
C10_FileUntouchedUntilOpened ==
    [][/\ schedule_data' = NoData => csvfile' = "none"
       /\ csvfile' = "none" => UNCHANGED <<file_exists, file_rows>>
       /\ (csvfile = "none" /\ csvfile' # "none") =>
              file_exists' /\ file_rows' = <<Header>>
       /\ (pc = "open" /\ csvfile' = "none") =>
              /\ pc' = "done"
              /\ console' = Append(console, <<"unexpected_error", "data/mlb_schedule_2025.csv">>)
       /\ csvfile' # "none" =>
              /\ file_exists'
              /\ file_rows'[1] = Header
              /\ \A i \in 2..Len(file_rows') : file_rows'[i] # OldRows[2]]_vars

\* a run ended by a bad status, the rows of the earlier run still in the file
C10_Witness ==
    /\ pc = "done"
    /\ raised = "HTTPError"
    /\ schedule_data = NoData
    /\ file_exists
    /\ file_rows = OldRows

=============================================================================
